---- MODULE Spec2Model ----
(***************************************************************************)
(* The baseline algorithms of src/src/baseline_algorithms.py (MaxEnt-All,  *)
(* Random-All, FullSupervision) as one state machine: one baseline object, *)
(* driven by its caller through initialize_data, iteration and finish_run. *)
(* The embedding store, the oracle (eval_class_indices) and the test data  *)
(* are fixed collaborators; the classifier is the external capability      *)
(* train/predict, whose fit is drawn from a bounded family.                *)
(***************************************************************************)
EXTENDS Integers, Sequences, FiniteSets, TLC

VARIABLES
    name,           \* self.name: which baseline class the object is
    scores,         \* self.scores: key -> list of per-round values
    labeled_set,    \* self.labeled_set: [X, y, indices], parallel sequences
    batch_size,     \* self.batch_size
    eval_class,     \* self.eval_class (None before initialize_data)
    new_class,      \* self.new_class
    classifier,     \* self.classifier: the set it was last trained on, its fit
    pc,             \* "idle", or "sampling" inside Random-All's while loop
    count,          \* local `count` of Random-All's add_elements_to_set
    random_index,   \* local `random_index` of that loop (-1 outside the loop)
    raised,         \* the exception the last call ended with ("none" if it returned)
    returned,       \* the record the last finish_run returned
    seed,           \* history: the initial_set of the last initialize_data
    inits,          \* history: initialize_data calls since construction / finish_run
    rounds,         \* history: iteration() calls since the last initialize_data
    returnedRounds, \* history: `rounds` when the last finish_run was called
    runs,           \* history: finish_run calls so far
    totalInits,     \* history: initialize_data calls so far
    totalRounds,    \* history: iteration() calls so far
    sort_ties,      \* how this build's np.argsort orders equal values
    previous,       \* history: the run the last finish_run ended
    shared          \* keys whose list in `returned` is the list in self.scores

vars == <<name, scores, labeled_set, batch_size, eval_class, new_class,
          classifier, pc, count, random_index, raised, returned, seed, inits,
          rounds, returnedRounds, runs, totalInits, totalRounds, sort_ties,
          previous, shared>>

-----------------------------------------------------------------------------
(* Bounds of the model *)

StoreSize == 5      \* data_manager.num_embeddings
MaxBatch == 2       \* batch_size passed to initialize_data is in 1..MaxBatch
MaxRounds == 3      \* iteration() calls
MaxInits == 2       \* initialize_data calls
MaxRuns == 1        \* finish_run calls
MaxCalls == 6       \* calls of the three operations together

(* Program constants *)

DefaultBatchSize == 100         \* self.batch_size = 100 in __init__
FullSupervisionEntries == 20    \* [precision] * 20 in FullSupervisionBaseline

None == "None"
NaN == 1    \* entropies are <= 0; 1 stands for nan, which argsort puts last

MaxEntAll == "MaxEnt-All"
RandomAll == "Random-All"
FullSupervision == "FullSupervision"
Baselines == {MaxEntAll, RandomAll, FullSupervision}
AllBaselines == {MaxEntAll, RandomAll}

-----------------------------------------------------------------------------
(* Sequences *)

Range(s) == {s[k] : k \in 1..Len(s)}

RECURSIVE Sum(_)
Sum(s) == IF s = <<>> THEN 0 ELSE Head(s) + Sum(Tail(s))

Repeat(v, n) == [k \in 1..n |-> v]

NoDuplicates(s) == \A k, l \in 1..Len(s) : k # l => s[k] # s[l]

-----------------------------------------------------------------------------
(* The collaborators: embedding store, oracle, LabeledSet *)

Store == 0..(StoreSize - 1)

\* data_manager.embedding_mm[i, :], one number standing for the row
embedding_mm == [i \in Store |-> 10 + (StoreSize - 1 - i)]

Classes == {"cat", "dog"}

\* data_manager.eval_class_indices: class -> indices of its true positives
eval_class_indices ==
    [c \in Classes |-> IF c = "cat" THEN {i \in Store : i % 2 = 0}
                                    ELSE {i \in Store : i % 3 = 1}]

\* LabeledSet(): the empty labeled set
LabeledSet == [X |-> <<>>, y |-> <<>>, indices |-> <<>>]

\* LabeledSet.add_data(X, y, indices): append to each of the three sequences
add_data(ls, X, y, indices) ==
    [X |-> ls.X \o X, y |-> ls.y \o y, indices |-> ls.indices \o indices]

Min(S) == CHOOSE i \in S : \A j \in S : i <= j

\* The seed set the data collaborator hands out for a class: its first positive
\* and its first negative, labelled by the oracle.
Seeds(ec) ==
    LET p == Min(eval_class_indices[ec])
        n == Min(Store \ eval_class_indices[ec])
    IN  {add_data(LabeledSet, <<embedding_mm[p], embedding_mm[n]>>, <<1, 0>>, <<p, n>>)}

-----------------------------------------------------------------------------
(* The classifier capability *)

\* P(positive) in percent of a logistic model at logit z (saturating)
Sigma(z) ==
    IF z <= -3 THEN 0
    ELSE IF z = -2 THEN 1
    ELSE IF z = -1 THEN 25
    ELSE IF z = 0 THEN 50
    ELSE IF z = 1 THEN 75
    ELSE IF z = 2 THEN 99
    ELSE 100

\* The fits train() can end with: weight and bias of a one-dimensional model
ClassifierFits == {[w |-> 1, b |-> -12], [w |-> -1, b |-> 13]}

\* classifier.predict(x)[1][:, 1]: P(positive) of an embedding under a fit
predict(fit, x) == Sigma(fit.w * x + fit.b)

\* classifier.train(labeled_set) fails on a set that lacks one of the classes
TrainFails(ls) == ~ ({0, 1} \subseteq Range(ls.y))

\* The classifier before its first train(): no training set, no weights
Untrained == [on |-> LabeledSet, fit |-> [w |-> 0, b |-> 0]]

\* What `returned` holds before the first finish_run: a record without keys
NoRecord == <<>>

\* The calls made so far
Calls == totalInits + totalRounds + runs

\* What `previous` holds before the first finish_run
NoRun == [eval_class |-> None, first |-> -1]

\* The orders a sort can give equal values: the order of their positions, as
\* a stable sort does, or the reverse; one build always gives the same
SortTies == {"stable", "reversed"}

\* precision_score, recall_score, average_precision_score (in percent) of a
\* fit's predictions on the fixed test data
test_scores(fit) ==
    [precision |-> 50 + 10 * fit.w,
     recall |-> 100 + fit.b,
     average_precision |-> 70 + fit.w + fit.b]

-----------------------------------------------------------------------------
(* BaseBaselineALgorithm *)

ScoreKeys == {"precision", "recall", "average_precision", "positives"}

EmptyScores == [k \in ScoreKeys |-> <<>>]

\* self.scores as the constructors leave it
InitScores(n) ==
    IF n = FullSupervision
    THEN [k \in {"precision", "recall", "average_precision"} |-> <<>>]
    ELSE EmptyScores

Init ==
    /\ name \in Baselines
    /\ scores = InitScores(name)
    /\ labeled_set = LabeledSet
    /\ batch_size = DefaultBatchSize
    /\ eval_class = None
    /\ new_class = TRUE
    /\ classifier = Untrained
    /\ pc = "idle"
    /\ count = 0
    /\ random_index = -1
    /\ raised = "none"
    /\ returned = NoRecord
    /\ seed = LabeledSet
    /\ inits = 0
    /\ rounds = 0
    /\ returnedRounds = 0
    /\ runs = 0
    /\ totalInits = 0
    /\ totalRounds = 0
    /\ sort_ties \in IF name = MaxEntAll THEN SortTies ELSE {"stable"}
    /\ previous = NoRun
    /\ shared = {}

initialize_data ==
    /\ pc = "idle"
    /\ totalInits < MaxInits
    /\ Calls < MaxCalls
    /\ \E ec \in Classes, bs \in 1..MaxBatch :
        \E initial_set \in Seeds(ec) :
            /\ labeled_set' = add_data(labeled_set, initial_set.X, initial_set.y,
                                       initial_set.indices)
            /\ batch_size' = bs
            /\ eval_class' = ec
            /\ seed' = initial_set
    /\ new_class' = TRUE
    /\ raised' = "none"
    /\ inits' = inits + 1
    /\ totalInits' = totalInits + 1
    /\ rounds' = 0
    /\ UNCHANGED <<name, scores, classifier, pc, count, random_index, returned,
                   returnedRounds, runs, totalRounds,
                   sort_ties, previous, shared>>

\* Mutant: a finish_run that returns the copy of the dictionary and leaves
\* self.scores holding the same lists
finish_run_keeps_lists ==
    /\ pc = "idle"
    /\ inits > 0
    /\ runs < MaxRuns
    /\ Calls < MaxCalls
    /\ returned' = scores
    /\ shared' = DOMAIN scores
    /\ labeled_set' = LabeledSet
    /\ raised' = "none"
    /\ inits' = 0
    /\ returnedRounds' = rounds
    /\ runs' = runs + 1
    /\ previous' = NoRun
    /\ UNCHANGED <<name, scores, batch_size, eval_class, new_class, classifier, pc,
                   count, random_index, seed, rounds, totalInits, totalRounds,
                   sort_ties>>

\* Called by the driver when a run is finished: a run was begun before
finish_run ==
    /\ pc = "idle"
    /\ inits > 0
    /\ runs < MaxRuns
    /\ Calls < MaxCalls
    /\ returned' = scores
    /\ scores' = EmptyScores
    /\ shared' = {}
    /\ labeled_set' = LabeledSet
    /\ raised' = "none"
    /\ inits' = 0
    /\ returnedRounds' = rounds
    /\ runs' = runs + 1
    /\ previous' = IF inits = 1 /\ Len(labeled_set.indices) > Len(seed.indices)
                   THEN [eval_class |-> eval_class,
                         first |-> labeled_set.indices[Len(seed.indices) + 1]]
                   ELSE NoRun
    /\ UNCHANGED <<name, batch_size, eval_class, new_class, classifier, pc, count,
                   random_index, seed, rounds, totalInits, totalRounds,
                   sort_ties>>

\* The record a caller holds after an append made self.scores sc: a list it
\* shares with self.scores shows the append, a list of its own does not
seen_by_caller(rec, sc, sh) ==
    IF sh = {} THEN rec
    ELSE [k \in DOMAIN rec |-> IF k \in sh THEN sc[k] ELSE rec[k]]

-----------------------------------------------------------------------------
(* AllBaseline *)

\* Mutant: the positives entry is skipped
compute_scores_without_positives(sc, ls, m) ==
    [sc EXCEPT !["precision"] = Append(@, m.precision),
               !["recall"] = Append(@, m.recall),
               !["average_precision"] = Append(@, m.average_precision)]

\* Mutant: the size of the labeled set is recorded instead of its positives
compute_scores_set_size(sc, ls, m) ==
    [sc EXCEPT !["precision"] = Append(@, m.precision),
               !["recall"] = Append(@, m.recall),
               !["average_precision"] = Append(@, m.average_precision),
               !["positives"] = Append(@, Len(ls.y))]

\* compute_scores of AllBaseline: one entry appended to each of the four lists
compute_scores(sc, ls, m) ==
    [sc EXCEPT !["precision"] = Append(@, m.precision),
               !["recall"] = Append(@, m.recall),
               !["average_precision"] = Append(@, m.average_precision),
               !["positives"] = Append(@, Sum(ls.y))]

\* Mutant: the membership test is dropped
NotInLabeledSet_unchecked(ls, i) == TRUE

\* `x not in self.labeled_set.indices`
NotInLabeledSet(ls, i) == i \notin Range(ls.indices)

\* Mutant: the label is looked up under a fixed class, not the evaluated one
oracle_label_fixed_class(i, ec) == IF i \in eval_class_indices["cat"] THEN 1 ELSE 0

\* `1 if i in self.data_manager.eval_class_indices[eval_class] else 0`
oracle_label(i, ec) == IF i \in eval_class_indices[ec] THEN 1 ELSE 0

\* The body of the `if` of both loops: label index i and append its triple
add_element(ls, i, ec) ==
    add_data(ls, <<embedding_mm[i]>>, <<oracle_label(i, ec)>>, <<i>>)

-----------------------------------------------------------------------------
(* MaxEntAllBaseline *)

\* p * log(p) + (1 - p) * log(1 - p), times 1000, for p in percent; nan at 0 and 1
entropies(p) ==
    IF p = 0 \/ p = 100 THEN NaN
    ELSE IF p = 1 \/ p = 99 THEN -56
    ELSE IF p = 25 \/ p = 75 THEN -562
    ELSE -693

\* Mutant: the order is descending (least entropy first)
RECURSIVE argsort_descending(_, _)
argsort_descending(e, S) ==
    IF S = {} THEN {<<>>}
    ELSE UNION {{<<i>> \o rest : rest \in argsort_descending(e, S \ {i})} :
                    i \in {j \in S : \A k \in S : e[j] >= e[k]}}

\* np.argsort(e) over the indices S: the ascending order of the values, nan
\* last; equal values come in the order the build's sort gives them, the same
\* for the same input
RECURSIVE argsort(_, _)
argsort(e, S) ==
    IF S = {} THEN {<<>>}
    ELSE LET least == {j \in S : \A k \in S : e[j] <= e[k]}
             i == IF sort_ties = "stable"
                  THEN CHOOSE j \in least : \A k \in least : j <= k
                  ELSE CHOOSE j \in least : \A k \in least : j >= k
         IN  {<<i>> \o rest : rest \in argsort(e, S \ {i})}

\* Mutant: the loop runs while count <= batch_size
RECURSIVE max_ent_loop_one_more(_, _, _, _, _, _)
max_ent_loop_one_more(ls, entropy_orders, index, cnt, bs, ec) ==
    IF cnt > bs THEN [labeled_set |-> ls, raised |-> "none"]
    ELSE IF index > Len(entropy_orders)
         THEN [labeled_set |-> ls, raised |-> "IndexError"]
    ELSE IF NotInLabeledSet(ls, entropy_orders[index])
         THEN max_ent_loop_one_more(add_element(ls, entropy_orders[index], ec),
                                    entropy_orders, index + 1, cnt + 1, bs, ec)
    ELSE max_ent_loop_one_more(ls, entropy_orders, index + 1, cnt, bs, ec)

\* The while loop of MaxEntAllBaseline.add_elements_to_set, from `index` and
\* `count` on (index counts from 1 here): the labeled set it ends with and how
\* it ends
RECURSIVE max_ent_loop(_, _, _, _, _, _)
max_ent_loop(ls, entropy_orders, index, cnt, bs, ec) ==
    IF cnt >= bs THEN [labeled_set |-> ls, raised |-> "none"]
    ELSE IF index > Len(entropy_orders)
         THEN [labeled_set |-> ls, raised |-> "IndexError"]
    ELSE IF NotInLabeledSet(ls, entropy_orders[index])
         THEN max_ent_loop(add_element(ls, entropy_orders[index], ec),
                           entropy_orders, index + 1, cnt + 1, bs, ec)
    ELSE max_ent_loop(ls, entropy_orders, index + 1, cnt, bs, ec)

\* The entropy of every store embedding under the fit
store_entropies(fit) == [i \in Store |-> entropies(predict(fit, embedding_mm[i]))]

\* Mutant: an iteration() that catches the failed training and records a
\* round of zero scores
iteration_train_fails_zero_filled ==
    /\ pc = "idle"
    /\ eval_class # None
    /\ totalRounds < MaxRounds
    /\ Calls < MaxCalls
    /\ name \in AllBaselines
    /\ TrainFails(labeled_set)
    /\ scores' = compute_scores(scores, labeled_set,
                    [precision |-> 0, recall |-> 0, average_precision |-> 0])
    /\ raised' = "TrainError"
    /\ rounds' = rounds + 1
    /\ totalRounds' = totalRounds + 1
    /\ UNCHANGED <<name, labeled_set, batch_size, eval_class, new_class,
                   classifier, pc, count, random_index, returned, seed, inits,
                   returnedRounds, runs, totalInits,
                   sort_ties, previous, shared>>

\* AllBaseline.iteration, first statement failing: classifier.train raises
iteration_train_fails ==
    /\ pc = "idle"
    /\ eval_class # None
    /\ totalRounds < MaxRounds
    /\ Calls < MaxCalls
    /\ name \in AllBaselines
    /\ TrainFails(labeled_set)
    /\ raised' = "TrainError"
    /\ rounds' = rounds + 1
    /\ totalRounds' = totalRounds + 1
    /\ UNCHANGED <<name, scores, labeled_set, batch_size, eval_class, new_class,
                   classifier, pc, count, random_index, returned, seed, inits,
                   returnedRounds, runs, totalInits,
                   sort_ties, previous, shared>>

\* Mutant: an iteration() of MaxEnt-All that selects first, by the classifier
\* of the round before, and then trains and scores on the enlarged set
max_ent_iteration_select_first ==
    /\ pc = "idle"
    /\ eval_class # None
    /\ totalRounds < MaxRounds
    /\ Calls < MaxCalls
    /\ name = MaxEntAll
    /\ ~ TrainFails(labeled_set)
    /\ \E fit \in ClassifierFits :
        \E entropy_orders \in argsort(store_entropies(classifier.fit), Store) :
            LET r == max_ent_loop(labeled_set, entropy_orders, 1, 0, batch_size,
                                  eval_class)
            IN  /\ labeled_set' = r.labeled_set
                /\ raised' = r.raised
                /\ classifier' = [on |-> r.labeled_set, fit |-> fit]
                /\ scores' = compute_scores(scores, r.labeled_set, test_scores(fit))
    /\ rounds' = rounds + 1
    /\ totalRounds' = totalRounds + 1
    /\ UNCHANGED <<name, batch_size, eval_class, new_class, pc, count, random_index,
                   returned, seed, inits, returnedRounds, runs, totalInits,
                   sort_ties, previous, shared>>

\* AllBaseline.iteration of MaxEnt-All: train, compute_scores, add_elements_to_set
max_ent_iteration ==
    /\ pc = "idle"
    /\ eval_class # None
    /\ totalRounds < MaxRounds
    /\ Calls < MaxCalls
    /\ name = MaxEntAll
    /\ ~ TrainFails(labeled_set)
    /\ \E fit \in ClassifierFits :
        /\ classifier' = [on |-> labeled_set, fit |-> fit]
        /\ scores' = compute_scores(scores, labeled_set, test_scores(fit))
        /\ \E entropy_orders \in argsort(store_entropies(fit), Store) :
            LET r == max_ent_loop(labeled_set, entropy_orders, 1, 0, batch_size,
                                  eval_class)
            IN  /\ labeled_set' = r.labeled_set
                /\ raised' = r.raised
    /\ returned' = seen_by_caller(returned, scores', shared)
    /\ rounds' = rounds + 1
    /\ totalRounds' = totalRounds + 1
    /\ UNCHANGED <<name, batch_size, eval_class, new_class, pc, count, random_index,
                   seed, inits, returnedRounds, runs, totalInits,
                   sort_ties, previous, shared>>

-----------------------------------------------------------------------------
(* RandomAllBaseline *)

\* AllBaseline.iteration of Random-All up to the while loop: train,
\* compute_scores, count = 0
random_iteration ==
    /\ pc = "idle"
    /\ eval_class # None
    /\ totalRounds < MaxRounds
    /\ Calls < MaxCalls
    /\ name = RandomAll
    /\ ~ TrainFails(labeled_set)
    /\ \E fit \in ClassifierFits :
        /\ classifier' = [on |-> labeled_set, fit |-> fit]
        /\ scores' = compute_scores(scores, labeled_set, test_scores(fit))
    /\ count' = 0
    /\ random_index' = -1
    /\ pc' = "sampling"
    /\ raised' = "none"
    /\ returned' = seen_by_caller(returned, scores', shared)
    /\ rounds' = rounds + 1
    /\ totalRounds' = totalRounds + 1
    /\ UNCHANGED <<name, labeled_set, batch_size, eval_class, new_class,
                   seed, inits, returnedRounds, runs, totalInits,
                   sort_ties, previous, shared>>

\* One pass of the while loop of RandomAllBaseline.add_elements_to_set with
\* np.random.randint drawing i; the loop is left, and iteration() returns, when
\* count reaches batch_size
random_draw(i) ==
    /\ pc = "sampling"
    /\ count < batch_size
    /\ IF NotInLabeledSet(labeled_set, i)
       THEN /\ labeled_set' = add_element(labeled_set, i, eval_class)
            /\ IF count + 1 < batch_size
               THEN count' = count + 1 /\ random_index' = i /\ pc' = "sampling"
               ELSE count' = 0 /\ random_index' = -1 /\ pc' = "idle"
       ELSE random_index' = i /\ UNCHANGED <<labeled_set, count, pc>>
    /\ UNCHANGED <<name, scores, batch_size, eval_class, new_class, classifier,
                   raised, returned, seed, inits, rounds, returnedRounds, runs,
                   totalInits, totalRounds,
                   sort_ties, previous, shared>>

-----------------------------------------------------------------------------
(* FullSupervisionBaseline *)

\* compute_scores of FullSupervisionBaseline: three keys assigned a list of
\* twenty copies
full_compute_scores(sc, m) ==
    [k \in DOMAIN sc \cup {"precision", "recall", "average_precision"} |->
        IF k = "precision" THEN Repeat(m.precision, FullSupervisionEntries)
        ELSE IF k = "recall" THEN Repeat(m.recall, FullSupervisionEntries)
        ELSE IF k = "average_precision"
             THEN Repeat(m.average_precision, FullSupervisionEntries)
        ELSE sc[k]]

\* The training set FullSupervisionBaseline.iteration builds: every store
\* embedding, its oracle label, and an empty index list
full_training_set(ec) ==
    add_data(LabeledSet,
             [k \in 1..StoreSize |-> embedding_mm[k - 1]],
             [k \in 1..StoreSize |-> oracle_label(k - 1, ec)],
             <<>>)

\* Mutant: a FullSupervision iteration() that ignores the new_class flag and
\* trains and scores on every call
full_iteration_always_trains ==
    /\ pc = "idle"
    /\ eval_class # None
    /\ totalRounds < MaxRounds
    /\ Calls < MaxCalls
    /\ name = FullSupervision
    /\ \E fit \in ClassifierFits :
        /\ classifier' = [on |-> full_training_set(eval_class), fit |-> fit]
        /\ scores' = full_compute_scores(scores, test_scores(fit))
        /\ new_class' = FALSE
    /\ raised' = "none"
    /\ rounds' = rounds + 1
    /\ totalRounds' = totalRounds + 1
    /\ UNCHANGED <<name, labeled_set, batch_size, eval_class, pc, count, random_index,
                   returned, seed, inits, returnedRounds, runs, totalInits,
                   sort_ties, previous, shared>>

\* FullSupervisionBaseline.iteration: trains and scores while new_class is
\* set; the score lists it assigns are new lists
full_iteration ==
    /\ pc = "idle"
    /\ eval_class # None
    /\ totalRounds < MaxRounds
    /\ Calls < MaxCalls
    /\ name = FullSupervision
    /\ IF new_class
       THEN \E fit \in ClassifierFits :
                /\ classifier' = [on |-> full_training_set(eval_class), fit |-> fit]
                /\ scores' = full_compute_scores(scores, test_scores(fit))
                /\ new_class' = FALSE
                /\ shared' = shared \ {"precision", "recall", "average_precision"}
       ELSE UNCHANGED <<classifier, scores, new_class, shared>>
    /\ raised' = "none"
    /\ rounds' = rounds + 1
    /\ totalRounds' = totalRounds + 1
    /\ UNCHANGED <<name, labeled_set, batch_size, eval_class, pc, count, random_index,
                   returned, seed, inits, returnedRounds, runs, totalInits,
                   sort_ties, previous>>

-----------------------------------------------------------------------------

Next ==
    \/ initialize_data
    \/ iteration_train_fails
    \/ max_ent_iteration
    \/ random_iteration
    \/ \E i \in Store : random_draw(i)
    \/ full_iteration
    \/ finish_run

Spec == Init /\ [][Next]_vars

\* np.random.randint draws every index again and again
FairSpec ==
    /\ Spec
    /\ \A i \in Store : SF_vars(random_draw(i))

-----------------------------------------------------------------------------
(* Properties *)

\* The repetition in progress was begun by exactly one initialize_data on a
\* new or reset baseline, so its labeled set started as the seed
CleanRun == inits = 1

SeedSize == Len(seed.indices)

\* The indices of the store not in the labeled set
Unlabeled == Store \ Range(labeled_set.indices)

\* C1: for MaxEnt-All and Random-All, from a seed without duplicate indices,
\* after initialize_data and any number of iteration() calls the labeled
\* set's indices hold no duplicates.
C1_NoDuplicateSelection ==
    (name \in AllBaselines /\ CleanRun /\ NoDuplicates(seed.indices))
        => NoDuplicates(labeled_set.indices)

C1_Witness ==
    /\ name \in AllBaselines
    /\ CleanRun
    /\ rounds >= 2
    /\ pc = "idle"
    /\ Len(labeled_set.indices) >= SeedSize + 2
    /\ NoDuplicates(labeled_set.indices)

\* C2: for MaxEnt-All and Random-All, while the store holds at least
\* batch_size unlabeled indices at every round, r iterations from a seed of
\* size s leave a labeled set of size s + r * batch_size, each call returning
\* normally.
C2_BatchSizeAdded ==
    (/\ name \in AllBaselines
     /\ CleanRun
     /\ pc = "idle"
     /\ SeedSize + rounds * batch_size <= StoreSize)
        => /\ Len(labeled_set.indices) = SeedSize + rounds * batch_size
           /\ raised = "none"

C2_Witness ==
    /\ name \in AllBaselines
    /\ CleanRun
    /\ pc = "idle"
    /\ rounds = 2
    /\ batch_size = 1
    /\ Len(labeled_set.indices) = SeedSize + 2

\* C3: with fewer than batch_size unlabeled indices left, MaxEnt-All's
\* selection labels what remains and returns normally: an iteration of
\* MaxEnt-All never ends with an error.
C3_MaxEntDegradesWithoutRaising ==
    (name = MaxEntAll /\ CleanRun) => raised = "none"

\* C4: every iteration() of Random-All terminates: the sampling loop, once
\* entered, is left.
C4_RandomIterationTerminates == (pc = "sampling") ~> (pc = "idle")

\* C5: for MaxEnt-All and Random-All, after n iteration() calls since
\* initialize_data each of the four score lists has n entries.
C5_ScoreListsLength ==
    (name \in AllBaselines /\ CleanRun)
        => /\ DOMAIN scores = ScoreKeys
           /\ \A k \in ScoreKeys : Len(scores[k]) = rounds

C5_Witness ==
    /\ name \in AllBaselines
    /\ CleanRun
    /\ rounds = 3
    /\ \A k \in ScoreKeys : Len(scores[k]) = 3

\* C6: the record FullSupervisionBaseline.finish_run returns has the keys
\* precision, recall, average_precision and positives, each with one entry per
\* iteration() call of the run.
C6_FullSupervisionRecordShape ==
    (name = FullSupervision /\ runs > 0 /\ returnedRounds >= 1)
        => /\ DOMAIN returned = ScoreKeys
           /\ \A k \in DOMAIN returned : Len(returned[k]) = returnedRounds

\* C7: for MaxEnt-All and Random-All, every positives entry recorded is the
\* number of positive labels in the labeled set at that moment, and is not
\* below the entry recorded before it.
C7_PositivesMonotone ==
    [][(name \in AllBaselines
            /\ Len(scores'["positives"]) > Len(scores["positives"]))
        => /\ scores'["positives"] = Append(scores["positives"], Sum(labeled_set.y))
           /\ Len(scores["positives"]) > 0
                => scores["positives"][Len(scores["positives"])] <= Sum(labeled_set.y)]_vars

C7_Witness ==
    /\ name \in AllBaselines
    /\ Len(scores["positives"]) >= 2
    /\ scores["positives"][1] < scores["positives"][2]
    /\ scores["positives"][2] <= Sum(labeled_set.y)

\* C8: a baseline re-initialized with seed S after a completed run is in the
\* state of a newly constructed baseline initialized with S: the labeled set
\* is S, the score record is the constructor's, the new_class flag is set.
C8_RepetitionsIndependent ==
    (runs > 0 /\ returnedRounds >= 1 /\ CleanRun /\ rounds = 0)
        => /\ labeled_set = seed
           /\ scores = InitScores(name)
           /\ new_class

\* C9: every triple MaxEnt-All or Random-All appends carries the oracle's
\* label for the class given to initialize_data and the store's embedding at
\* its index.
C9_OracleLabels ==
    (name \in AllBaselines /\ CleanRun)
        => /\ Len(labeled_set.X) = Len(labeled_set.indices)
           /\ Len(labeled_set.y) = Len(labeled_set.indices)
           /\ \A k \in (SeedSize + 1)..Len(labeled_set.indices) :
                /\ labeled_set.y[k] = 1
                    <=> labeled_set.indices[k] \in eval_class_indices[eval_class]
                /\ labeled_set.y[k] \in {0, 1}
                /\ labeled_set.X[k] = embedding_mm[labeled_set.indices[k]]

C9_Witness ==
    /\ name \in AllBaselines
    /\ CleanRun
    /\ eval_class = "dog"
    /\ \E k, l \in (SeedSize + 1)..Len(labeled_set.indices) :
        /\ labeled_set.y[k] = 1
        /\ labeled_set.y[l] = 0
        /\ labeled_set.indices[l] \in eval_class_indices["cat"]

\* How far the fit's positive-class probability of index i is from 1/2: the
\* nearer, the higher the binary entropy
Certainty(i) ==
    LET p == predict(classifier.fit, embedding_mm[i])
    IN  IF p >= 50 THEN p - 50 ELSE 50 - p

\* The positions of the labeled set the last iteration() filled: those past
\* the set the classifier was trained on at the start of the round
LastBatch == (Len(classifier.on.indices) + 1)..Len(labeled_set.indices)

\* C10: the batch MaxEnt-All adds is the unlabeled indices of highest entropy,
\* in ranked order: no index left unlabeled is nearer 1/2 than a selected
\* one, the batch has batch_size members unless the store ran out, and
\* p = 0.5 ranks before p = 0.99 and p = 0.01, which tie.
C10_MaxEntSelectsByEntropy ==
    /\ entropies(50) < entropies(99)
    /\ entropies(99) = entropies(1)
    /\ (name = MaxEntAll /\ CleanRun /\ rounds >= 1)
        => /\ \A k \in LastBatch : \A j \in Unlabeled :
                Certainty(labeled_set.indices[k]) <= Certainty(j)
           /\ \A k, l \in LastBatch :
                k < l => Certainty(labeled_set.indices[k])
                            <= Certainty(labeled_set.indices[l])
           /\ \A k \in LastBatch :
                labeled_set.indices[k] \notin Range(classifier.on.indices)
           /\ \/ Cardinality(LastBatch) = batch_size
              \/ Unlabeled = {}

C10_Witness ==
    /\ name = MaxEntAll
    /\ CleanRun
    /\ rounds >= 2
    /\ raised = "none"
    /\ Cardinality(LastBatch) = batch_size
    /\ \E k \in LastBatch :
        /\ \E j \in Unlabeled : Certainty(labeled_set.indices[k]) < Certainty(j)
        /\ \E l \in Range(classifier.on.indices) :
                Certainty(l) < Certainty(labeled_set.indices[k])

\* The run in progress repeats the run the last finish_run ended: both began
\* with one initialize_data of the same class, so of the same seed, over the
\* same store, and the classifier fitted in their first round is the same
\* (the test metrics of a fit tell the fits apart)
Replay ==
    /\ previous # NoRun
    /\ CleanRun
    /\ pc = "idle"
    /\ eval_class = previous.eval_class
    /\ Len(labeled_set.indices) > SeedSize
    /\ \A k \in {"precision", "recall", "average_precision"} :
            scores[k][1] = returned[k][1]

\* C11: two runs of MaxEnt-All, and likewise of Random-All, with the same
\* seed, store, classifier and strategy select the same indices: the first
\* index the second run selects is the first index the first run selected.
C11_Determinism ==
    (name \in AllBaselines /\ Replay)
        => labeled_set.indices[SeedSize + 1] = previous.first

\* C12: right after initialize_data the labeled set is the seed it was
\* handed, triple for triple and nothing else, whatever was called before.
C12_InitializedToSeed ==
    (inits >= 1 /\ rounds = 0 /\ pc = "idle") => labeled_set = seed

\* C13: FullSupervision trains and scores once per initialize_data: the first
\* iteration() after it trains on the whole store and writes the score lists
\* and clears the flag, every later iteration() changes none of classifier,
\* scores and flag, and initialize_data sets the flag again.
C13_FullSupervisionOneShot ==
    [][name = FullSupervision
        => /\ (totalRounds' = totalRounds + 1 /\ rounds = 0)
                => /\ new_class /\ ~new_class'
                   /\ classifier'.on = full_training_set(eval_class)
                   /\ \A k \in {"precision", "recall", "average_precision"} :
                        scores'[k] = Repeat(test_scores(classifier'.fit)[k],
                                            FullSupervisionEntries)
           /\ (totalRounds' = totalRounds + 1 /\ rounds >= 1)
                => /\ ~new_class
                   /\ UNCHANGED <<classifier, scores, new_class>>
           /\ (totalInits' = totalInits + 1)
                => (new_class' /\ rounds' = 0)]_vars

C13_Witness ==
    /\ name = FullSupervision
    /\ totalInits = 2
    /\ rounds >= 2
    /\ ~new_class
    /\ Len(scores["precision"]) = FullSupervisionEntries

\* The labeled set ls2 is the labeled set ls1 with triples appended
Extends(ls2, ls1) ==
    /\ Len(ls2.indices) >= Len(ls1.indices)
    /\ \A f \in {"X", "y", "indices"} :
            SubSeq(ls2[f], 1, Len(ls1.indices)) = ls1[f]

\* C14: an iteration() of MaxEnt-All or Random-All trains, then scores, then
\* selects: the classifier of the round is trained on the labeled set as the
\* round found it (the seed, in the first round of a run), the round's score
\* entry is that classifier's metrics and the positives of that set, the
\* batch is appended to that set while classifier and scores stay, and the
\* first positives entry of a run is the number of positives in the seed.
C14_TrainScoreSelect ==
    [][(name \in AllBaselines
        => /\ (totalRounds' = totalRounds + 1 /\ raised' # "TrainError")
                => /\ classifier'.on = labeled_set
                   /\ (CleanRun /\ rounds = 0) => classifier'.on = seed
                   /\ \A k \in {"precision", "recall", "average_precision"} :
                        scores'[k] = Append(scores[k], test_scores(classifier'.fit)[k])
                   /\ scores'["positives"]
                        = Append(scores["positives"], Sum(labeled_set.y))
                   /\ Extends(labeled_set', labeled_set)
           /\ pc = "sampling"
                => /\ UNCHANGED <<classifier, scores>>
                   /\ Extends(labeled_set', labeled_set)
                   /\ Extends(labeled_set, classifier.on)
           /\ (CleanRun' /\ rounds' >= 1)
                => scores'["positives"][1] = Sum(seed'.y))]_vars

C14_Witness ==
    /\ name \in AllBaselines
    /\ CleanRun
    /\ rounds = 2
    /\ pc = "idle"
    /\ Len(classifier.on.indices) > SeedSize
    /\ Len(labeled_set.indices) > Len(classifier.on.indices)
    /\ scores["positives"][1] = Sum(seed.y)
    /\ scores["positives"][2] > scores["positives"][1]

\* C15: every labeled set the baselines build or extend has as many
\* embeddings as labels as indices: the baseline's own labeled set, the seed
\* it copied, and the set the classifier was last trained on.
C15_ParallelSequences ==
    \A ls \in {labeled_set, seed, classifier.on} :
        /\ Len(ls.X) = Len(ls.y)
        /\ Len(ls.y) = Len(ls.indices)

\* C16: an iteration() of MaxEnt-All or Random-All whose training fails
\* raises and leaves the score lists and the labeled set as they were.
C16_FailedTrainingNoEffect ==
    [][(name \in AllBaselines /\ TrainFails(labeled_set)
            /\ totalRounds' = totalRounds + 1)
        => (raised' = "TrainError" /\ scores' = scores
                /\ labeled_set' = labeled_set)]_vars

C16_Witness ==
    /\ name \in AllBaselines
    /\ raised = "TrainError"
    /\ rounds >= 1
    /\ TrainFails(labeled_set)
    /\ \A k \in DOMAIN scores : scores[k] = <<>>

\* C17: finish_run returns the entries recorded since the last reset and
\* leaves the baseline with empty score lists and an empty labeled set, and
\* no other step changes the record that was returned.
C17_ReturnedRecordIsSnapshot ==
    [][IF runs' = runs + 1
       THEN /\ returned' = scores
            /\ \A k \in DOMAIN scores' : scores'[k] = <<>>
            /\ labeled_set' = LabeledSet
       ELSE returned' = returned]_vars

C17_Witness ==
    /\ runs >= 1
    /\ returnedRounds >= 1
    /\ totalInits = 2
    /\ rounds >= 1
    /\ returned["precision"] # <<>>
    /\ scores["precision"] # <<>>
    /\ scores["precision"] # returned["precision"]

====
